---- MODULE Spec2Model ----
(***************************************************************************)
(* XMLFileScanner (scanner.js): the existence cache, its probe and its     *)
(* cleanup, the change detector, the scan cycle and the interval schedule, *)
(* the checksum, file discovery, scanDirectory and refreshFile.            *)
(*                                                                         *)
(* The transport (fetch), the clock (Date.now) and the timer service       *)
(* (setInterval / clearInterval) are the environment: their outcomes are   *)
(* chosen with \E.  An await on the transport is a suspension point, so a  *)
(* call that awaits is modelled as a call step and a resumption step.      *)
(***************************************************************************)
EXTENDS Integers, Sequences, FiniteSets, TLC

VARIABLES
    cache,            \* this.cache: key -> [exists, timestamp]
    contentCache,     \* this.contentCache: url -> content
    scanInterval,     \* this.scanInterval: timer id or Null
    lastScanResults,  \* this.lastScanResults: the retained snapshot
    onChange,         \* what this.onChange evaluates to (method, handler or object)
    now,              \* Date.now(), in milliseconds
    timers,           \* live interval timers of the timer service
    cycles,           \* performScan calls suspended at `await scanDirectory`
    probes,           \* testFileExists calls suspended at `await fetch`
    fetches,          \* number of transport calls issued so far
    remote,           \* the server: url -> the file it serves there
    scan,             \* the scanDirectory call in progress, with its locals
    refreshes,        \* refreshFile calls suspended at `await fetch`
    ret               \* the call that returned last, with what it returned and did

vars == <<cache, contentCache, scanInterval, lastScanResults, onChange, now,
          timers, cycles, probes, fetches, remote, scan, refreshes, ret>>

cacheVars == <<cache, contentCache, now, probes, fetches>>
schedVars == <<scanInterval, timers, cycles>>
scanVars == <<remote, scan, refreshes>>

\* null, which tests false like the number 0; timer ids are positive integers
Null == 0
NoCall == [op |-> "none"]
\* no scanDirectory call is in progress; lastServed is what the server held
\* for each file the last completed call fetched
Idle == [pc |-> "idle", lastServed |-> <<>>]

(***************************************************************************)
(* Bounds of the model.                                                    *)
(***************************************************************************)
MaxFiles == 2         \* records in a snapshot handed to detectChanges (at most one per name)
MaxScanFiles == 2     \* records in a snapshot a scan cycle assembles (at most one per name)
MaxInFlight == 2      \* scan cycles suspended at the same time
MaxTimers == 2        \* interval timers the timer service keeps live
MaxProbes == 2        \* existence probes suspended at the same time
MaxFetches == 3       \* transport calls issued in a behaviour
MaxTicks == 5         \* clock advances in a behaviour

(***************************************************************************)
(* Values.                                                                 *)
(***************************************************************************)
BasePaths == {"a/", "b/"}
Names == {"ch1", "ch2"}
Checksums == {"x1", "x2"}
Times == {"t1", "t2"}
Sizes == {10, 20}
Handlers == {"h1", "h2"}

\* scanDirectory, lines 58 and 62-68: the record pushed for an existing file
FileRecord(basePath, fileName, checksum, lastModified, size) ==
    [name |-> fileName,
     url |-> basePath \o fileName \o ".xml",
     checksum |-> checksum,
     lastModified |-> lastModified,
     size |-> size]

FileRecords(basePath) ==
    {FileRecord(basePath, n, c, t, s) : n \in Names, c \in Checksums, t \in Times, s \in Sizes}

\* the names of a sequence of records, in order
NamesOf(files) == [i \in DOMAIN files |-> files[i].name]

Range(s) == {s[i] : i \in DOMAIN s}

DistinctNames(files) ==
    \A i, j \in DOMAIN files : i # j => files[i].name # files[j].name

\* scanDirectory results: one record per discovered name (discoverFiles
\* returns Array.from of a Set, so the names are pairwise distinct)
SnapshotsOf(records, maxLen) ==
    UNION {{s \in [1..n -> records] : DistinctNames(s)} : n \in 0..maxLen}

Snapshots == SnapshotsOf(FileRecords("a/"), MaxFiles)

(***************************************************************************)
(* A JavaScript Map: keys in insertion order, and the value of each key.   *)
(***************************************************************************)
EmptyMap == [keys |-> <<>>, val |-> [k \in {} |-> Null]]

MapHas(m, k) == k \in DOMAIN m.val

MapGet(m, k) == m.val[k]

MapSet(m, k, v) ==
    IF MapHas(m, k)
    THEN [m EXCEPT !.val[k] = v]
    ELSE [keys |-> Append(m.keys, k), val |-> (k :> v) @@ m.val]

\* files.forEach(file => map.set(file.name, file)), lines 316-324
RECURSIVE MapOfFiles(_, _)
MapOfFiles(files, m) ==
    IF files = <<>> THEN m
    ELSE MapOfFiles(Tail(files), MapSet(m, Head(files).name, Head(files)))

(***************************************************************************)
(* detectChanges, lines 305-383.                                           *)
(***************************************************************************)
\* lines 306-313
NewChanges(currentFiles) ==
    [hasChanges |-> FALSE,
     added |-> <<>>,
     removed |-> <<>>,
     modified |-> <<>>,
     unchanged |-> <<>>,
     allFiles |-> NamesOf(currentFiles)]

\* AddedStep without the test of line 328
AddedStepUnguarded(changes, name, currentMap, previousMap) ==
    [changes EXCEPT !.added = Append(@, MapGet(currentMap, name)),
                    !.hasChanges = TRUE]

\* body of the loop of lines 327-332
AddedStep(changes, name, currentMap, previousMap) ==
    IF ~MapHas(previousMap, name)
    THEN [changes EXCEPT !.added = Append(@, MapGet(currentMap, name)),
                         !.hasChanges = TRUE]
    ELSE changes

\* RemovedStep without the assignment of line 338
RemovedStepSilent(changes, name, currentMap, previousMap) ==
    IF ~MapHas(currentMap, name)
    THEN [changes EXCEPT !.removed = Append(@, MapGet(previousMap, name))]
    ELSE changes

\* body of the loop of lines 335-340
RemovedStep(changes, name, currentMap, previousMap) ==
    IF ~MapHas(currentMap, name)
    THEN [changes EXCEPT !.removed = Append(@, MapGet(previousMap, name)),
                         !.hasChanges = TRUE]
    ELSE changes

\* Differs without the comparison of line 349
DiffersIgnoringSize(currentFile, previousFile) ==
    \/ currentFile.checksum # previousFile.checksum
    \/ currentFile.lastModified # previousFile.lastModified

\* lines 347-349: the comparison that decides modified / unchanged
Differs(currentFile, previousFile) ==
    \/ currentFile.checksum # previousFile.checksum
    \/ currentFile.lastModified # previousFile.lastModified
    \/ currentFile.size # previousFile.size

\* lines 351-360
ModifiedEntry(name, previousFile, currentFile) ==
    [name |-> name,
     previous |-> previousFile,
     current |-> currentFile,
     changes |-> [contentChanged |-> currentFile.checksum # previousFile.checksum,
                  sizeChanged |-> currentFile.size # previousFile.size,
                  timeChanged |-> currentFile.lastModified # previousFile.lastModified]]

\* body of the loop of lines 343-366
ModifiedStep(changes, name, currentMap, previousMap) ==
    IF MapHas(previousMap, name)
    THEN IF Differs(MapGet(currentMap, name), MapGet(previousMap, name))
         THEN [changes EXCEPT
                 !.modified = Append(@, ModifiedEntry(name, MapGet(previousMap, name),
                                                      MapGet(currentMap, name))),
                 !.hasChanges = TRUE]
         ELSE [changes EXCEPT !.unchanged = Append(@, MapGet(currentMap, name))]
    ELSE changes

RECURSIVE AddedLoop(_, _, _, _)
AddedLoop(changes, keys, currentMap, previousMap) ==
    IF keys = <<>> THEN changes
    ELSE AddedLoop(AddedStep(changes, Head(keys), currentMap, previousMap),
                   Tail(keys), currentMap, previousMap)

RECURSIVE RemovedLoop(_, _, _, _)
RemovedLoop(changes, keys, currentMap, previousMap) ==
    IF keys = <<>> THEN changes
    ELSE RemovedLoop(RemovedStep(changes, Head(keys), currentMap, previousMap),
                     Tail(keys), currentMap, previousMap)

RECURSIVE ModifiedLoop(_, _, _, _)
ModifiedLoop(changes, keys, currentMap, previousMap) ==
    IF keys = <<>> THEN changes
    ELSE ModifiedLoop(ModifiedStep(changes, Head(keys), currentMap, previousMap),
                      Tail(keys), currentMap, previousMap)

\* detectChanges(currentFiles) with this.lastScanResults = previousFiles
detectChanges(currentFiles, previousFiles) ==
    LET currentMap == MapOfFiles(currentFiles, EmptyMap)
        previousMap == MapOfFiles(previousFiles, EmptyMap)
        afterAdded == AddedLoop(NewChanges(currentFiles), currentMap.keys,
                                currentMap, previousMap)
        afterRemoved == RemovedLoop(afterAdded, previousMap.keys,
                                    currentMap, previousMap)
    IN  ModifiedLoop(afterRemoved, currentMap.keys, currentMap, previousMap)

\* DetectChanges with the retained snapshot replaced by the argument
DetectChangesReplacing(currentFiles) ==
    /\ ret' = [op |-> "detectChanges",
               current |-> currentFiles,
               previous |-> lastScanResults,
               report |-> detectChanges(currentFiles, lastScanResults)]
    /\ lastScanResults' = currentFiles
    /\ UNCHANGED onChange
    /\ UNCHANGED cacheVars
    /\ UNCHANGED schedVars
    /\ UNCHANGED scanVars

\* a direct call scanner.detectChanges(currentFiles): the retained snapshot
\* is read and nothing of the scanner is written
DetectChanges(currentFiles) ==
    /\ ret' = [op |-> "detectChanges",
               current |-> currentFiles,
               previous |-> lastScanResults,
               report |-> detectChanges(currentFiles, lastScanResults)]
    /\ UNCHANGED <<lastScanResults, onChange>>
    /\ UNCHANGED cacheVars
    /\ UNCHANGED schedVars
    /\ UNCHANGED scanVars

(***************************************************************************)
(* The state after construction, lines 3-9.  this.onChange is the method   *)
(* of the prototype until an own property of that name is assigned.        *)
(***************************************************************************)
Method == "method"

Constructed ==
    /\ cache = [k \in {} |-> Null]
    /\ contentCache = [k \in {} |-> Null]
    /\ scanInterval = Null
    /\ lastScanResults = <<>>
    /\ onChange = Method
    /\ now = 0
    /\ timers = {}
    /\ cycles = <<>>
    /\ probes = <<>>
    /\ fetches = 0
    /\ remote = [u \in {} |-> Null]
    /\ scan = Idle
    /\ refreshes = <<>>
    /\ ret = NoCall

(***************************************************************************)
(* SpecDetect: detectChanges as a function of the two snapshots.  The      *)
(* retained snapshot is any snapshot an earlier scan cycle can have left.  *)
(***************************************************************************)
InitDetect ==
    /\ cache = ("exists:a/ch1.xml" :> [exists |-> TRUE, timestamp |-> 0])
    /\ contentCache = [k \in {} |-> Null]
    /\ scanInterval = Null
    /\ lastScanResults \in Snapshots
    /\ onChange = "h1"
    /\ now = 0
    /\ timers = {}
    /\ cycles = <<>>
    /\ probes = <<>>
    /\ fetches = 0
    /\ remote = [u \in {} |-> Null]
    /\ scan = Idle
    /\ refreshes = <<>>
    /\ ret = NoCall

NextDetect == \E currentFiles \in Snapshots : DetectChanges(currentFiles)

SpecDetect == InitDetect /\ [][NextDetect]_vars

(***************************************************************************)
(* testFileExists, lines 242-264.  The call reads the cache and either     *)
(* returns the cached boolean or issues a HEAD request and is suspended;   *)
(* it resumes when the transport answers or fails.                         *)
(***************************************************************************)
CacheTTL == 30000

\* urls tryPatternScanning probes, lines 189 and 212
ProbeUrls == {"a/" \o "chapter-" \o "1" \o ".xml", "a/" \o "quiz" \o ".xml"}

\* what the transport does with a request: response.ok, a response that is
\* not ok, or a rejected fetch
Outcomes == {"ok", "notfound", "error"}

\* elapsed milliseconds between two observations of the clock
Delays == {10000, 20000}

\* line 245
CacheKey(url) == "exists:" \o url

\* IsFresh with the entry aged exactly CacheTTL still trusted
IsFreshInclusive(key) ==
    /\ key \in DOMAIN cache
    /\ (now - cache[key].timestamp) <= CacheTTL

\* line 247: cached && (Date.now() - cached.timestamp) < 30000
IsFresh(key) ==
    /\ key \in DOMAIN cache
    /\ (now - cache[key].timestamp) < CacheTTL

\* lines 245-251: the call, up to its return or its suspension at the fetch
TestFileExists(url) ==
    /\ fetches < MaxFetches
    /\ Len(probes) < MaxProbes
    /\ IF IsFresh(CacheKey(url))
       THEN /\ ret' = [op |-> "testFileExists", url |-> url,
                       value |-> cache[CacheKey(url)].exists,
                       time |-> now, transport |-> "none"]
            /\ UNCHANGED <<probes, fetches>>
       ELSE /\ probes' = Append(probes, [url |-> url])
            /\ fetches' = fetches + 1
            /\ UNCHANGED ret
    /\ UNCHANGED <<cache, contentCache, now, lastScanResults, onChange>>
    /\ UNCHANGED schedVars
    /\ UNCHANGED scanVars

RemoveAt(s, i) == [j \in 1..(Len(s) - 1) |-> IF j < i THEN s[j] ELSE s[j + 1]]

\* ProbeResponse that caches false when the fetch is rejected
ProbeResponseCachingFailure(i, outcome) ==
    /\ i \in DOMAIN probes
    /\ LET url == probes[i].url
           exists == (outcome = "ok")
       IN  /\ cache' = (CacheKey(url) :> [exists |-> exists, timestamp |-> now]) @@ cache
           /\ ret' = [op |-> "testFileExists", url |-> url, value |-> exists,
                      time |-> now, transport |-> outcome]
    /\ probes' = RemoveAt(probes, i)
    /\ UNCHANGED <<contentCache, now, fetches, lastScanResults, onChange>>
    /\ UNCHANGED schedVars
    /\ UNCHANGED scanVars

\* lines 251-263: the suspended call resumes with the transport's outcome
ProbeResponse(i, outcome) ==
    /\ i \in DOMAIN probes
    /\ LET url == probes[i].url
           exists == (outcome = "ok")
       IN  IF outcome = "error"
           THEN /\ ret' = [op |-> "testFileExists", url |-> url, value |-> FALSE,
                           time |-> now, transport |-> outcome]
                /\ UNCHANGED cache
           ELSE /\ cache' = (CacheKey(url) :> [exists |-> exists, timestamp |-> now]) @@ cache
                /\ ret' = [op |-> "testFileExists", url |-> url, value |-> exists,
                           time |-> now, transport |-> outcome]
    /\ probes' = RemoveAt(probes, i)
    /\ UNCHANGED <<contentCache, now, fetches, lastScanResults, onChange>>
    /\ UNCHANGED schedVars
    /\ UNCHANGED scanVars

\* the clock moves on
Advance(d) ==
    /\ now + d <= MaxTicks * 10000
    /\ now' = now + d
    /\ UNCHANGED <<cache, contentCache, probes, fetches, lastScanResults, onChange, ret>>
    /\ UNCHANGED schedVars
    /\ UNCHANGED scanVars

\* line 417: the default of maxAge
DefaultMaxAge == 3600000

\* the maxAge arguments of cleanupCache
MaxAges == {20000, 40000, DefaultMaxAge}

\* cleanupCache that also deletes an entry aged exactly maxAge
CleanupCacheInclusive(maxAge) ==
    /\ cache' = [k \in {key \in DOMAIN cache : ~(now - cache[key].timestamp >= maxAge)}
                   |-> cache[k]]
    /\ ret' = [op |-> "cleanupCache", maxAge |-> maxAge, time |-> now, before |-> cache]
    /\ UNCHANGED <<contentCache, now, probes, fetches, lastScanResults, onChange>>
    /\ UNCHANGED schedVars
    /\ UNCHANGED scanVars

\* lines 417-424
CleanupCache(maxAge) ==
    /\ cache' = [k \in {key \in DOMAIN cache : ~(now - cache[key].timestamp > maxAge)}
                   |-> cache[k]]
    /\ ret' = [op |-> "cleanupCache", maxAge |-> maxAge, time |-> now, before |-> cache]
    /\ UNCHANGED <<contentCache, now, probes, fetches, lastScanResults, onChange>>
    /\ UNCHANGED schedVars
    /\ UNCHANGED scanVars

(***************************************************************************)
(* SpecProbe: the existence cache under probes of two urls, cleanups and a *)
(* clock.                                                                  *)
(***************************************************************************)
NextProbe ==
    \/ \E url \in ProbeUrls : TestFileExists(url)
    \/ \E i \in 1..MaxProbes, outcome \in Outcomes : ProbeResponse(i, outcome)
    \/ \E d \in Delays : Advance(d)
    \/ \E maxAge \in MaxAges : CleanupCache(maxAge)

SpecProbe == Constructed /\ [][NextProbe]_vars

(***************************************************************************)
(* The change hook, lines 293-294 and 411-414.  `onChange` is a method of  *)
(* the prototype that assigns an own property of the same name, so         *)
(* this.onChange is the method until the first assignment and whatever was *)
(* assigned afterwards.                                                    *)
(***************************************************************************)
\* a ChangeReport stored in this.onChange: an object, truthy and not callable
\* (which report it is, is read by no code)
ReportObject == "report"

\* what the expression this.onChange(arg) does: the next value of
\* this.onChange (stored is arg as a value of that property), the handler
\* invocations made, and whether it throws (a TypeError for a value that is
\* not callable, or the handler's own throw)
CallOnChange(slot, arg, stored, handlerThrows) ==
    IF slot = Method
    THEN [slot |-> stored, invoked |-> <<>>, throws |-> FALSE]
    ELSE IF slot \in Handlers
    THEN [slot |-> slot, invoked |-> <<[handler |-> slot, arg |-> arg]>>,
          throws |-> handlerThrows]
    ELSE [slot |-> slot, invoked |-> <<>>, throws |-> TRUE]

\* a call scanner.onChange(callback) by the host application
OnChange(callback, handlerThrows) ==
    /\ LET call == CallOnChange(onChange, callback, callback, handlerThrows)
       IN  /\ onChange' = call.slot
           /\ ret' = [op |-> "onChange", callback |-> callback,
                      invoked |-> call.invoked, raised |-> call.throws]
    /\ UNCHANGED lastScanResults
    /\ UNCHANGED cacheVars
    /\ UNCHANGED schedVars
    /\ UNCHANGED scanVars

(***************************************************************************)
(* performScan, lines 282-302.  The call runs to `await scanDirectory` and *)
(* is suspended there; scanDirectory catches its own failures (lines       *)
(* 74-77), so the await always resumes with a snapshot.  The rest of the   *)
(* body runs without another suspension.                                   *)
(***************************************************************************)
\* the records scanDirectory can assemble under a base path
ScanRecords(basePath) ==
    {FileRecord(basePath, n, c, "t1", 10) : n \in Names, c \in Checksums}

ScanResults(basePath) == SnapshotsOf(ScanRecords(basePath), MaxScanFiles)

\* scanDirectory, line 58: every record of a snapshot has its url under basePath
UnderBasePath(files, basePath) ==
    \A k \in DOMAIN files : files[k].url = basePath \o files[k].name \o ".xml"

\* lines 283-286: a cycle starts and is suspended
BeginScan(cs, basePath) == Append(cs, [basePath |-> basePath])

\* a call scanner.performScan(basePath) by the host application
PerformScan(basePath) ==
    /\ Len(cycles) < MaxInFlight
    /\ cycles' = BeginScan(cycles, basePath)
    /\ ret' = [op |-> "performScanCall", basePath |-> basePath]
    /\ UNCHANGED <<scanInterval, timers, lastScanResults, onChange>>
    /\ UNCHANGED cacheVars
    /\ UNCHANGED scanVars

\* lines 287-301 with the hook called whether or not the report has changes
ScanCompletesAlwaysCalling(i, currentFiles, handlerThrows) ==
    /\ i \in DOMAIN cycles
    /\ UnderBasePath(currentFiles, cycles[i].basePath)
    /\ LET changes == detectChanges(currentFiles, lastScanResults)
           call == CallOnChange(onChange, changes, ReportObject, handlerThrows)
       IN  /\ lastScanResults' = currentFiles
           /\ onChange' = call.slot
           /\ ret' = [op |-> "performScan",
                      basePath |-> cycles[i].basePath,
                      current |-> currentFiles,
                      previous |-> lastScanResults,
                      report |-> changes,
                      invoked |-> call.invoked,
                      caught |-> call.throws,
                      result |-> IF call.throws THEN [hasChanges |-> FALSE] ELSE changes]
    /\ cycles' = RemoveAt(cycles, i)
    /\ UNCHANGED <<scanInterval, timers>>
    /\ UNCHANGED cacheVars
    /\ UNCHANGED scanVars

\* lines 287-301 with the assignment of line 290 moved behind the hook, so
\* that a throwing hook skips it
ScanCompletesAssigningLast(i, currentFiles, handlerThrows) ==
    /\ i \in DOMAIN cycles
    /\ UnderBasePath(currentFiles, cycles[i].basePath)
    /\ LET changes == detectChanges(currentFiles, lastScanResults)
           called == changes.hasChanges
           call == IF called
                   THEN CallOnChange(onChange, changes, ReportObject, handlerThrows)
                   ELSE [slot |-> onChange, invoked |-> <<>>, throws |-> FALSE]
       IN  /\ lastScanResults' = IF call.throws THEN lastScanResults ELSE currentFiles
           /\ onChange' = call.slot
           /\ ret' = [op |-> "performScan",
                      basePath |-> cycles[i].basePath,
                      current |-> currentFiles,
                      previous |-> lastScanResults,
                      report |-> changes,
                      invoked |-> call.invoked,
                      caught |-> call.throws,
                      result |-> IF call.throws THEN [hasChanges |-> FALSE] ELSE changes]
    /\ cycles' = RemoveAt(cycles, i)
    /\ UNCHANGED <<scanInterval, timers>>
    /\ UNCHANGED cacheVars
    /\ UNCHANGED scanVars

\* lines 287-301 with the snapshot compared with the empty one
ScanCompletesDiffingEmpty(i, currentFiles, handlerThrows) ==
    /\ i \in DOMAIN cycles
    /\ UnderBasePath(currentFiles, cycles[i].basePath)
    /\ LET changes == detectChanges(currentFiles, <<>>)
           called == changes.hasChanges
           call == IF called
                   THEN CallOnChange(onChange, changes, ReportObject, handlerThrows)
                   ELSE [slot |-> onChange, invoked |-> <<>>, throws |-> FALSE]
       IN  /\ lastScanResults' = currentFiles
           /\ onChange' = call.slot
           /\ ret' = [op |-> "performScan",
                      basePath |-> cycles[i].basePath,
                      current |-> currentFiles,
                      previous |-> lastScanResults,
                      report |-> changes,
                      invoked |-> call.invoked,
                      caught |-> call.throws,
                      result |-> IF call.throws THEN [hasChanges |-> FALSE] ELSE changes]
    /\ cycles' = RemoveAt(cycles, i)
    /\ UNCHANGED <<scanInterval, timers>>
    /\ UNCHANGED cacheVars
    /\ UNCHANGED scanVars

\* lines 287-301 with the catch of lines 298-301 returning the report
ScanCompletesReturningReport(i, currentFiles, handlerThrows) ==
    /\ i \in DOMAIN cycles
    /\ UnderBasePath(currentFiles, cycles[i].basePath)
    /\ LET changes == detectChanges(currentFiles, lastScanResults)
           called == changes.hasChanges
           call == IF called
                   THEN CallOnChange(onChange, changes, ReportObject, handlerThrows)
                   ELSE [slot |-> onChange, invoked |-> <<>>, throws |-> FALSE]
       IN  /\ lastScanResults' = currentFiles
           /\ onChange' = call.slot
           /\ ret' = [op |-> "performScan",
                      basePath |-> cycles[i].basePath,
                      current |-> currentFiles,
                      previous |-> lastScanResults,
                      report |-> changes,
                      invoked |-> call.invoked,
                      caught |-> call.throws,
                      result |-> changes]
    /\ cycles' = RemoveAt(cycles, i)
    /\ UNCHANGED <<scanInterval, timers>>
    /\ UNCHANGED cacheVars
    /\ UNCHANGED scanVars

\* lines 286-301: the i-th suspended cycle resumes with the snapshot
\* currentFiles of scanDirectory, diffs it, replaces the retained snapshot,
\* and calls this.onChange(changes) when the report has changes (this.onChange
\* is truthy in every state); a throw of that call is caught at line 298
ScanCompletes(i, currentFiles, handlerThrows) ==
    /\ i \in DOMAIN cycles
    /\ UnderBasePath(currentFiles, cycles[i].basePath)
    /\ LET changes == detectChanges(currentFiles, lastScanResults)
           called == changes.hasChanges
           call == IF called
                   THEN CallOnChange(onChange, changes, ReportObject, handlerThrows)
                   ELSE [slot |-> onChange, invoked |-> <<>>, throws |-> FALSE]
       IN  /\ lastScanResults' = currentFiles
           /\ onChange' = call.slot
           /\ ret' = [op |-> "performScan",
                      basePath |-> cycles[i].basePath,
                      current |-> currentFiles,
                      previous |-> lastScanResults,
                      report |-> changes,
                      invoked |-> call.invoked,
                      caught |-> call.throws,
                      result |-> IF call.throws THEN [hasChanges |-> FALSE] ELSE changes]
    /\ cycles' = RemoveAt(cycles, i)
    /\ UNCHANGED <<scanInterval, timers>>
    /\ UNCHANGED cacheVars
    /\ UNCHANGED scanVars

(***************************************************************************)
(* The schedule, lines 267-279 and 386-391.  The timer service keeps the   *)
(* live interval timers; each carries the basePath its callback closes     *)
(* over.  When a live timer fires is up to the environment.                *)
(***************************************************************************)
TimerIds == {t.id : t \in timers}

\* clearInterval(id)
ClearInterval(ts, id) == {t \in ts : t.id # id}

\* the id setInterval returns: one that no live timer has
FreshId(ts) == CHOOSE id \in 1..(Cardinality(ts) + 1) : \A t \in ts : t.id # id

\* startScanning without lines 268-270
StartScanningNoClear(basePath) ==
    /\ Len(cycles) < MaxInFlight
    /\ Cardinality(timers) < MaxTimers
    /\ cycles' = BeginScan(cycles, basePath)
    /\ scanInterval' = FreshId(timers)
    /\ timers' = timers \cup {[id |-> FreshId(timers), basePath |-> basePath]}
    /\ ret' = [op |-> "startScanning", basePath |-> basePath]
    /\ UNCHANGED <<lastScanResults, onChange>>
    /\ UNCHANGED cacheVars
    /\ UNCHANGED scanVars

\* lines 267-279
StartScanning(basePath) ==
    LET cleared == IF scanInterval # Null
                   THEN ClearInterval(timers, scanInterval)
                   ELSE timers
    IN  /\ Len(cycles) < MaxInFlight
        /\ Cardinality(cleared) < MaxTimers
        /\ cycles' = BeginScan(cycles, basePath)
        /\ scanInterval' = FreshId(cleared)
        /\ timers' = cleared \cup {[id |-> FreshId(cleared), basePath |-> basePath]}
        /\ ret' = [op |-> "startScanning", basePath |-> basePath]
        /\ UNCHANGED <<lastScanResults, onChange>>
        /\ UNCHANGED cacheVars
        /\ UNCHANGED scanVars

\* lines 276-278: a live timer fires and its callback starts a cycle
TimerFires(id) ==
    /\ Len(cycles) < MaxInFlight
    /\ \E t \in timers :
         /\ t.id = id
         /\ cycles' = BeginScan(cycles, t.basePath)
         /\ ret' = [op |-> "timer", basePath |-> t.basePath]
    /\ UNCHANGED <<scanInterval, timers, lastScanResults, onChange>>
    /\ UNCHANGED cacheVars
    /\ UNCHANGED scanVars

\* stopScanning without line 388: the field is reset, the timer is not cleared
StopScanningNoClear ==
    /\ scanInterval' = Null
    /\ ret' = [op |-> "stopScanning"]
    /\ UNCHANGED <<timers, cycles, lastScanResults, onChange>>
    /\ UNCHANGED cacheVars
    /\ UNCHANGED scanVars

\* lines 386-391
StopScanning ==
    /\ IF scanInterval # Null
       THEN /\ timers' = ClearInterval(timers, scanInterval)
            /\ scanInterval' = Null
       ELSE UNCHANGED <<timers, scanInterval>>
    /\ ret' = [op |-> "stopScanning"]
    /\ UNCHANGED <<cycles, lastScanResults, onChange>>
    /\ UNCHANGED cacheVars
    /\ UNCHANGED scanVars

(***************************************************************************)
(* SpecCycle: scan cycles under one base path, the hook and direct calls   *)
(* of detectChanges.  Cycles overlap when performScan is called while an   *)
(* earlier call is suspended.  Every step is a call or a resumption and    *)
(* records it in ret.                                                      *)
(***************************************************************************)
NextCycle ==
    \/ PerformScan("a/")
    \/ \E i \in 1..MaxInFlight, currentFiles \in ScanResults("a/"),
          handlerThrows \in BOOLEAN :
            ScanCompletes(i, currentFiles, handlerThrows)
    \/ \E callback \in Handlers, handlerThrows \in BOOLEAN :
         OnChange(callback, handlerThrows)
    \/ \E currentFiles \in ScanResults("a/") : DetectChanges(currentFiles)

SpecCycle == Constructed /\ [][NextCycle]_vars

(***************************************************************************)
(* Spec: the schedule.  startScanning, stopScanning, the timer service and *)
(* the completions of suspended cycles under two base paths; a base path   *)
(* serves no file or the file ch1 with one of two contents.                *)
(***************************************************************************)
ServedSnapshots(basePath) ==
    {<<>>} \cup {<<FileRecord(basePath, "ch1", c, "t1", 10)>> : c \in Checksums}

Init == Constructed

Next ==
    \/ \E basePath \in BasePaths : StartScanning(basePath)
    \/ StopScanning
    \/ \E id \in 1..MaxTimers : TimerFires(id)
    \/ \E i \in 1..MaxInFlight, basePath \in BasePaths :
         \E currentFiles \in ServedSnapshots(basePath), handlerThrows \in BOOLEAN :
            ScanCompletes(i, currentFiles, handlerThrows)
    \/ \E callback \in Handlers, handlerThrows \in BOOLEAN :
         OnChange(callback, handlerThrows)

Spec == Init /\ [][Next]_vars

(***************************************************************************)
(* generateChecksum, lines 12-20.  A string is the sequence of its UTF-16  *)
(* code units.  The accumulator is an int32; it is kept as its two 16-bit  *)
(* halves [hi, lo] (its value mod 2^32), since 32 * hash does not fit the  *)
(* 32-bit integers of TLC.  The subtraction and the addition of line 16    *)
(* are exact in the source and reduced mod 2^32 by line 17; here each of   *)
(* them is reduced mod 2^32, which gives the same int32.                   *)
(***************************************************************************)
Half == 65536

\* the int32 with halves hi and lo
Signed(h) == IF h.hi >= Half \div 2
             THEN (h.hi - Half) * Half + h.lo
             ELSE h.hi * Half + h.lo

\* hash << 4
ShiftLeft4(h) ==
    LET l == h.lo * 16
    IN  [hi |-> (h.hi * 16 + l \div Half) % Half, lo |-> l % Half]

\* line 16: hash << 5
ShiftLeft5(h) ==
    LET l == h.lo * 32
    IN  [hi |-> (h.hi * 32 + l \div Half) % Half, lo |-> l % Half]

\* line 16: a - b
Minus(a, b) ==
    LET l == a.lo - b.lo
        borrow == IF l < 0 THEN 1 ELSE 0
    IN  [hi |-> (a.hi - b.hi - borrow) % Half, lo |-> l % Half]

\* line 16: a + char, for a code unit char
PlusChar(a, char) ==
    LET l == a.lo + char
    IN  [hi |-> (a.hi + l \div Half) % Half, lo |-> l % Half]

\* lines 15-17: one turn of the loop
ChecksumStep(hash, char) == PlusChar(Minus(ShiftLeft5(hash), hash), char)

\* lines 13-18: the accumulator after each of the first i characters
RECURSIVE ChecksumTrace(_, _)
ChecksumTrace(content, i) ==
    IF i = 0
    THEN <<>>
    ELSE LET before == ChecksumTrace(content, i - 1)
             hash == IF i = 1 THEN [hi |-> 0, lo |-> 0] ELSE before[i - 1]
         IN  Append(before, ChecksumStep(hash, content[i]))

\* the digits Number.prototype.toString(36) uses
Digits36 == <<"0", "1", "2", "3", "4", "5", "6", "7", "8", "9", "a", "b",
              "c", "d", "e", "f", "g", "h", "i", "j", "k", "l", "m", "n",
              "o", "p", "q", "r", "s", "t", "u", "v", "w", "x", "y", "z">>

\* the base-36 digits of -n, for n <= 0 (the magnitude of -2^31 is no int32)
RECURSIVE Magnitude36(_)
Magnitude36(n) ==
    IF n = 0
    THEN ""
    ELSE LET d == (36 - (n % 36)) % 36
         IN  Magnitude36((n + d) \div 36) \o Digits36[d + 1]

\* line 19: hash.toString(36)
ToString36(n) ==
    IF n = 0 THEN "0"
    ELSE IF n < 0 THEN "-" \o Magnitude36(n)
    ELSE Magnitude36(0 - n)

\* lines 12-20
generateChecksum(content) ==
    LET trace == ChecksumTrace(content, Len(content))
    IN  IF content = <<>> THEN ToString36(0)
        ELSE ToString36(Signed(trace[Len(content)]))

MaxContentLen == 5    \* code units in a string handed to generateChecksum

\* code units: "a", a lone surrogate and the largest one
CodeUnits == {97, 55357, 65535}

RECURSIVE StringsUpTo(_)
StringsUpTo(n) ==
    IF n = 0
    THEN {<<>>}
    ELSE LET shorter == StringsUpTo(n - 1)
         IN  shorter \cup {Append(s, c) : s \in shorter, c \in CodeUnits}

\* generateChecksum called with content; the call has no effect on the scanner
GenerateChecksum(content) ==
    /\ ret' = [op |-> "generateChecksum",
               content |-> content,
               trace |-> ChecksumTrace(content, Len(content)),
               value |-> generateChecksum(content)]
    /\ UNCHANGED <<lastScanResults, onChange>>
    /\ UNCHANGED cacheVars
    /\ UNCHANGED schedVars
    /\ UNCHANGED scanVars

NextChecksum == \E content \in StringsUpTo(MaxContentLen) : GenerateChecksum(content)

(***************************************************************************)
(* SpecChecksum: generateChecksum over short strings of code units.        *)
(***************************************************************************)
SpecChecksum == Constructed /\ [][NextChecksum]_vars

(***************************************************************************)
(* Text, lines 119-127 and 154-161.  A text is the sequence of its         *)
(* characters, each a one-character string.                                *)
(***************************************************************************)
DotXml == <<".", "x", "m", "l">>

\* the string of a text
RECURSIVE Str(_)
Str(text) == IF text = <<>> THEN "" ELSE text[1] \o Str(Tail(text))

\* String.prototype.trim, for the white space the bodies below contain
RECURSIVE Trim(_)
Trim(text) ==
    IF text = <<>> THEN text
    ELSE IF text[1] \in {" ", "\t", "\r"} THEN Trim(Tail(text))
    ELSE IF text[Len(text)] \in {" ", "\t", "\r"}
         THEN Trim(SubSeq(text, 1, Len(text) - 1))
    ELSE text

\* text.split('\n')
RECURSIVE Split(_)
Split(text) ==
    IF \A i \in DOMAIN text : text[i] # "\n"
    THEN <<text>>
    ELSE LET i == CHOOSE j \in DOMAIN text :
                    /\ text[j] = "\n"
                    /\ \A k \in 1..(j - 1) : text[k] # "\n"
         IN  <<SubSeq(text, 1, i - 1)>> \o Split(SubSeq(text, i + 1, Len(text)))

\* text.indexOf('.xml') + 1
IndexOfXml(text) ==
    LET at == {i \in 1..(Len(text) - 3) : SubSeq(text, i, i + 3) = DotXml}
    IN  IF at = {} THEN 0 ELSE CHOOSE i \in at : \A j \in at : i <= j

\* text.includes('.xml')
IncludesXml(text) == IndexOfXml(text) # 0

\* text.startsWith(prefix)
StartsWith(text, prefix) ==
    /\ Len(text) >= Len(prefix)
    /\ SubSeq(text, 1, Len(prefix)) = prefix

\* the letters of .xml under the i flag
Lower(c) == IF c = "X" THEN "x" ELSE IF c = "M" THEN "m" ELSE IF c = "L" THEN "l" ELSE c

\* lines 124-125 and 158-159: text.match(/([^\/]+?)\.xml$/i) gives the run of
\* characters other than "/" that ends right before a final .xml, when that
\* run is not empty; otherwise the first .xml is removed from the text
ExtractName(text) ==
    LET n == Len(text)
        ends == /\ n >= 5
                /\ [i \in 1..4 |-> Lower(text[n - 4 + i])] = DotXml
                /\ text[n - 4] # "/"
        slashes == {i \in 1..(n - 4) : text[i] = "/"}
        from == IF slashes = {} THEN 1
                ELSE 1 + (CHOOSE i \in slashes : \A j \in slashes : j <= i)
        at == IndexOfXml(text)
    IN  IF ends THEN SubSeq(text, from, n - 4)
        ELSE IF at = 0 THEN text
        ELSE SubSeq(text, 1, at - 1) \o SubSeq(text, at + 4, n)

\* the elements of seq that satisfy Test, in order
SelectNonEmpty(seq) == SelectSeq(seq, LAMBDA t : t # <<>>)

\* lines 119-127: the names an index body lists
IndexNames(body) ==
    LET lines == [i \in DOMAIN Split(body) |-> Trim(Split(body)[i])]
        kept == SelectSeq(lines, LAMBDA line : line # <<>> /\ IncludesXml(line))
        files == SelectNonEmpty([i \in DOMAIN kept |-> ExtractName(kept[i])])
    IN  [i \in DOMAIN files |-> Str(files[i])]

\* lines 153-161: the names the anchors of a listing give, from their hrefs
ListingNames(hrefs) ==
    LET matched == SelectSeq(hrefs, LAMBDA href : IncludesXml(href))
        kept == SelectSeq(matched, LAMBDA href :
                    /\ href # <<>>
                    /\ ~StartsWith(href, <<"h", "t", "t", "p">>)
                    /\ ~StartsWith(href, <<"#">>))
        links == SelectNonEmpty([i \in DOMAIN kept |-> ExtractName(kept[i])])
    IN  [i \in DOMAIN links |-> Str(links[i])]

\* a JSON string and a JSON number as elements of a parsed array
JsonString(text) == [type |-> "string", text |-> text]
JsonNumber == [type |-> "number"]

\* lines 228-231: the names a chapters.json array lists
ManifestNames(chapters) ==
    LET strings == SelectSeq(chapters, LAMBDA chapter :
                       chapter.type = "string" /\ chapter.text # <<>>)
        trimmed == SelectNonEmpty([i \in DOMAIN strings |-> Trim(strings[i].text)])
    IN  [i \in DOMAIN trimmed |-> Str(trimmed[i])]

(***************************************************************************)
(* The server.  remote maps the url of each file the server holds to the   *)
(* file: its content, the value of its last-modified header ("" when the   *)
(* server sends none, which tests false like null at lines 29-30) and      *)
(* whether responses for it carry a date header.                           *)
(***************************************************************************)
NoHeader == ""

ServerFile(content, lastModified, date) ==
    [content |-> content, lastModified |-> lastModified, date |-> date]

\* the files a server may hold at a url
ServerFiles ==
    {ServerFile(<<97>>, "t1", TRUE),
     ServerFile(<<97, 98>>, "t2", TRUE),
     ServerFile(<<97>>, NoHeader, TRUE),
     ServerFile(<<97>>, NoHeader, FALSE)}

\* the urls of the files of the servers below
RemoteUrls == {"a/quiz.xml", "a/intro.xml"}

\* the date header of a response sent at time t, and new Date().toISOString()
DateHeader(t) == "date:" \o ToString(t \div 1000)
ISOString(t) == "iso:" \o ToString(t)

\* the response to GET url: the transport either rejects, or delivers a status
\* without success, or delivers the file the server holds
Response(url, outcome) ==
    IF outcome = "error" THEN [kind |-> "error"]
    ELSE IF outcome = "ok" /\ url \in DOMAIN remote
    THEN [kind |-> "ok",
          content |-> remote[url].content,
          lastModified |-> remote[url].lastModified,
          date |-> IF remote[url].date THEN DateHeader(now) ELSE NoHeader]
    ELSE [kind |-> "status"]

\* lines 23-45, from the response to the value returned
getFileInfo(response) ==
    IF response.kind = "ok"
    THEN [content |-> response.content,
          checksum |-> generateChecksum(response.content),
          lastModified |-> IF response.lastModified # NoHeader THEN response.lastModified
                           ELSE IF response.date # NoHeader THEN response.date
                           ELSE ISOString(now),
          size |-> Len(response.content),
          exists |-> TRUE]
    ELSE [exists |-> FALSE]

(***************************************************************************)
(* discoverFiles and its four methods, lines 81-239.  scan.failed is the   *)
(* set of methods in which a fetch was rejected or a body did not parse.   *)
(***************************************************************************)
\* lines 105-112
indexFiles == <<"index.txt", "files.txt", "chapters.txt", "list.txt",
                "manifest.txt", "xml-list.txt">>

\* lines 177-181
commonPatterns == <<"chapter-", "quiz-", "test-", "questions-",
                    "unit-", "lesson-", "topic-", "module-",
                    "ch-", "q-", "t-", "ex-">>

\* line 184
maxChecks == 30

\* lines 204-209
commonNames == <<"questions", "quiz", "test", "exam", "practice",
                 "exercise", "problems", "review", "final", "midterm",
                 "chapter1", "chapter2", "chapter3", "unit1", "unit2",
                 "algebra", "geometry", "calculus", "physics", "chemistry">>

\* line 195: i.toString().padStart(2, '0')
PadStart2(i) == IF i < 10 THEN "0" \o ToString(i) ELSE ToString(i)

\* lines 187-216: the names tryPatternScanning probes, in the order it probes them
PatternNames ==
    LET perNumber == 2 * Len(commonPatterns)
        numeric == [j \in 1..(maxChecks * perNumber) |->
                      LET i == (j - 1) \div perNumber + 1
                          within == (j - 1) % perNumber
                          pattern == commonPatterns[within \div 2 + 1]
                      IN  IF within % 2 = 0
                          THEN pattern \o ToString(i)
                          ELSE pattern \o PadStart2(i)]
    IN  numeric \o commonNames

\* lines 58, 189, 196 and 212
FileUrl(basePath, fileName) == basePath \o fileName \o ".xml"

\* found.concat(names): the names added without regard to what found holds
AddAllKeepingDuplicates(found, names) == found \o names

\* lines 86, 90, 94 and 98: names.forEach(file => foundFiles.add(file)), the
\* Set being the sequence of its elements in insertion order
RECURSIVE AddAll(_, _)
AddAll(found, names) ==
    IF names = <<>>
    THEN found
    ELSE AddAll(IF names[1] \in Range(found) THEN found ELSE Append(found, names[1]),
                Tail(names))

\* the bodies an index file may have
IndexBodies ==
    {<<"q", "u", "i", "z", ".", "x", "m", "l", "\n",
       " ", "d", "/", "i", "n", "t", "r", "o", ".", "x", "m", "l", " ", "\n",
       "q", "u", "i", "z", ".", "x", "m", "l", "\n">>,
     <<"n", "o", "t", "e", "s", "\n", "q", ".", "X", "M", "L">>}

\* what GET basePath may deliver: a status, a content type and, when the body
\* parses, the href of each of its anchors
Listings ==
    {[outcome |-> "ok", html |-> TRUE, parses |-> TRUE,
      hrefs |-> << <<"i", "n", "t", "r", "o", ".", "x", "m", "l">>,
                   <<"h", "t", "t", "p", ":", "/", "/", "h", "/", "z", ".", "x", "m", "l">>,
                   <<"#", ".", "x", "m", "l">> >>],
     [outcome |-> "ok", html |-> FALSE, parses |-> TRUE, hrefs |-> <<>>],
     [outcome |-> "ok", html |-> TRUE, parses |-> FALSE, hrefs |-> <<>>],
     [outcome |-> "notfound", html |-> FALSE, parses |-> TRUE, hrefs |-> <<>>],
     [outcome |-> "error", html |-> FALSE, parses |-> TRUE, hrefs |-> <<>>]}

\* what GET basePath + chapters.json may deliver: a status and a body that is
\* a JSON array, another JSON value, or no JSON
Manifests ==
    {[outcome |-> "ok", json |-> "array",
      chapters |-> <<JsonString(<<" ", "q", "u", "i", "z", " ">>), JsonNumber,
                     JsonString(<<>>), JsonString(<<"e", "x", "t", "r", "a">>)>>],
     [outcome |-> "ok", json |-> "object", chapters |-> <<>>],
     [outcome |-> "ok", json |-> "invalid", chapters |-> <<>>],
     [outcome |-> "notfound", json |-> "invalid", chapters |-> <<>>],
     [outcome |-> "error", json |-> "invalid", chapters |-> <<>>]}

\* lines 49-53, 82-85 and 105-116: scanDirectory as it is suspended at the
\* first fetch of tryIndexFile
Started(basePath, lastServed) ==
    [pc |-> "index", basePath |-> basePath, k |-> 1,
     index |-> <<>>, listing |-> <<>>, pattern |-> <<>>, manifest |-> <<>>,
     failed |-> {}, found |-> <<>>, i |-> 1,
     infos |-> <<>>, fileDetails |-> <<>>, served |-> <<>>,
     lastServed |-> lastServed]

\* lines 283-286, 49-53, 82-85 and 105-116: performScan is called and runs
\* into scanDirectory, discoverFiles and tryIndexFile up to its first fetch
ScanDirectory(basePath) ==
    /\ scan.pc = "idle"
    /\ scan' = Started(basePath, scan.lastServed)
    /\ UNCHANGED <<remote, refreshes, ret, lastScanResults, onChange>>
    /\ UNCHANGED cacheVars
    /\ UNCHANGED schedVars

\* lines 114-139: the fetch of the k-th index file completes
TryIndexFile(outcome, body) ==
    /\ scan.pc = "index"
    /\ LET files == IF outcome = "ok" THEN IndexNames(body) ELSE <<>>
           failed == IF outcome = "error" THEN scan.failed \cup {"index"} ELSE scan.failed
       IN  scan' = IF Len(files) > 0
                   THEN [scan EXCEPT !.pc = "listing", !.index = files,
                                     !.found = AddAll(scan.found, files)]
                   ELSE IF scan.k = Len(indexFiles)
                   THEN [scan EXCEPT !.pc = "listing", !.failed = failed]
                   ELSE [scan EXCEPT !.k = scan.k + 1, !.failed = failed]
    /\ UNCHANGED <<remote, refreshes, ret, lastScanResults, onChange>>
    /\ UNCHANGED cacheVars
    /\ UNCHANGED schedVars

\* lines 143-173: the fetch of basePath completes
TryDirectoryListing(listing) ==
    /\ scan.pc = "listing"
    /\ LET throws == listing.outcome = "error"
                       \/ (listing.outcome = "ok" /\ listing.html /\ ~listing.parses)
           links == IF listing.outcome = "ok" /\ listing.html /\ listing.parses
                    THEN ListingNames(listing.hrefs)
                    ELSE <<>>
       IN  scan' = [scan EXCEPT !.pc = "pattern", !.listing = links,
                                !.found = AddAll(scan.found, links),
                                !.failed = IF throws THEN scan.failed \cup {"listing"}
                                           ELSE scan.failed]
    /\ UNCHANGED <<remote, refreshes, ret, lastScanResults, onChange>>
    /\ UNCHANGED cacheVars
    /\ UNCHANGED schedVars

\* lines 176-219 with 242-264: every probe of tryPatternScanning, the
\* transport rejecting the requests for the urls in down
TryPatternScanning(down) ==
    /\ scan.pc = "pattern"
    /\ LET url(name) == FileUrl(scan.basePath, name)
           fresh(name) == IsFresh(CacheKey(url(name)))
           rejected(name) == ~fresh(name) /\ url(name) \in down
           exists(name) == IF fresh(name)
                           THEN cache[CacheKey(url(name))].exists
                           ELSE ~rejected(name) /\ url(name) \in DOMAIN remote
           foundFiles == SelectSeq(PatternNames, exists)
           written == {CacheKey(url(PatternNames[j])) :
                         j \in {n \in DOMAIN PatternNames :
                                  /\ ~fresh(PatternNames[n])
                                  /\ ~rejected(PatternNames[n])}}
           held == {CacheKey(u) : u \in DOMAIN remote}
           threw == \E j \in DOMAIN PatternNames : rejected(PatternNames[j])
       IN  /\ cache' = [key \in written |-> [exists |-> key \in held, timestamp |-> now]]
                        @@ cache
           /\ scan' = [scan EXCEPT !.pc = "manifest", !.pattern = foundFiles,
                                   !.found = AddAll(scan.found, foundFiles),
                                   !.failed = IF threw THEN scan.failed \cup {"pattern"}
                                              ELSE scan.failed]
    /\ UNCHANGED <<contentCache, now, probes, fetches>>
    /\ UNCHANGED <<remote, refreshes, ret, lastScanResults, onChange>>
    /\ UNCHANGED schedVars

\* lines 222-239 and 100: the fetch of chapters.json completes and
\* discoverFiles returns
CheckChaptersJson(manifest) ==
    /\ scan.pc = "manifest"
    /\ LET throws == manifest.outcome = "error"
                       \/ (manifest.outcome = "ok" /\ manifest.json = "invalid")
           chapters == IF manifest.outcome = "ok" /\ manifest.json = "array"
                       THEN ManifestNames(manifest.chapters)
                       ELSE <<>>
       IN  scan' = [scan EXCEPT !.pc = "files", !.manifest = chapters,
                                !.found = AddAll(scan.found, chapters),
                                !.failed = IF throws THEN scan.failed \cup {"manifest"}
                                           ELSE scan.failed]
    /\ UNCHANGED <<remote, refreshes, ret, lastScanResults, onChange>>
    /\ UNCHANGED cacheVars
    /\ UNCHANGED schedVars

(***************************************************************************)
(* scanDirectory, lines 48-78, and the rest of its cycle, lines 286-297.   *)
(* scan.infos holds what getFileInfo returned for each candidate so far    *)
(* and scan.served what the server held for each candidate it delivered.   *)
(***************************************************************************)
\* one turn of the loop of lines 57-70 that leaves the loop when the file
\* does not exist
GetFileInfoStoppingAtMissing(outcome) ==
    /\ scan.pc = "files"
    /\ scan.i <= Len(scan.found)
    /\ LET fileName == scan.found[scan.i]
           fileUrl == FileUrl(scan.basePath, fileName)
           fileInfo == getFileInfo(Response(fileUrl, outcome))
       IN  scan' = IF fileInfo.exists
                   THEN [scan EXCEPT
                           !.i = scan.i + 1,
                           !.infos = Append(scan.infos, fileInfo),
                           !.fileDetails = Append(scan.fileDetails,
                               FileRecord(scan.basePath, fileName, fileInfo.checksum,
                                          fileInfo.lastModified, fileInfo.size)),
                           !.served = (fileName :> [content |-> remote[fileUrl].content,
                                                    lastModified |-> remote[fileUrl].lastModified])
                                      @@ scan.served]
                   ELSE [scan EXCEPT !.i = Len(scan.found) + 1,
                                     !.infos = Append(scan.infos, fileInfo)]
    /\ UNCHANGED <<remote, refreshes, ret, lastScanResults, onChange>>
    /\ UNCHANGED cacheVars
    /\ UNCHANGED schedVars

\* lines 57-70 with 23-45: the fetch of the i-th candidate completes
GetFileInfo(outcome) ==
    /\ scan.pc = "files"
    /\ scan.i <= Len(scan.found)
    /\ LET fileName == scan.found[scan.i]
           fileUrl == FileUrl(scan.basePath, fileName)
           fileInfo == getFileInfo(Response(fileUrl, outcome))
       IN  scan' = IF fileInfo.exists
                   THEN [scan EXCEPT
                           !.i = scan.i + 1,
                           !.infos = Append(scan.infos, fileInfo),
                           !.fileDetails = Append(scan.fileDetails,
                               FileRecord(scan.basePath, fileName, fileInfo.checksum,
                                          fileInfo.lastModified, fileInfo.size)),
                           !.served = (fileName :> [content |-> remote[fileUrl].content,
                                                    lastModified |-> remote[fileUrl].lastModified])
                                      @@ scan.served]
                   ELSE [scan EXCEPT !.i = scan.i + 1,
                                     !.infos = Append(scan.infos, fileInfo)]
    /\ UNCHANGED <<remote, refreshes, ret, lastScanResults, onChange>>
    /\ UNCHANGED cacheVars
    /\ UNCHANGED schedVars

\* lines 72 and 286-297: scanDirectory returns its snapshot and performScan
\* runs to its return
ScanDirectoryReturns(handlerThrows) ==
    /\ scan.pc = "files"
    /\ scan.i > Len(scan.found)
    /\ LET currentFiles == scan.fileDetails
           changes == detectChanges(currentFiles, lastScanResults)
           call == IF changes.hasChanges
                   THEN CallOnChange(onChange, changes, ReportObject, handlerThrows)
                   ELSE [slot |-> onChange, invoked |-> <<>>, throws |-> FALSE]
       IN  /\ lastScanResults' = currentFiles
           /\ onChange' = call.slot
           /\ ret' = [op |-> "performScan",
                      basePath |-> scan.basePath,
                      current |-> currentFiles,
                      previous |-> lastScanResults,
                      report |-> changes,
                      invoked |-> call.invoked,
                      caught |-> call.throws,
                      result |-> IF call.throws THEN [hasChanges |-> FALSE] ELSE changes,
                      found |-> scan.found,
                      infos |-> scan.infos,
                      failed |-> scan.failed,
                      served |-> scan.served,
                      previousServed |-> scan.lastServed]
    /\ scan' = [pc |-> "idle", lastServed |-> scan.served]
    /\ UNCHANGED <<remote, refreshes>>
    /\ UNCHANGED cacheVars
    /\ UNCHANGED schedVars

\* the server's file at url is replaced, created or deleted
RemoteWrite(url, file) ==
    /\ remote' = (url :> file) @@ remote
    /\ UNCHANGED <<scan, refreshes, ret, lastScanResults, onChange>>
    /\ UNCHANGED cacheVars
    /\ UNCHANGED schedVars

RemoteDelete(url) ==
    /\ url \in DOMAIN remote
    /\ remote' = [u \in DOMAIN remote \ {url} |-> remote[u]]
    /\ UNCHANGED <<scan, refreshes, ret, lastScanResults, onChange>>
    /\ UNCHANGED cacheVars
    /\ UNCHANGED schedVars

\* the servers a behaviour starts with
Servers ==
    {[u \in {} |-> Null],
     "a/quiz.xml" :> ServerFile(<<97>>, "t1", TRUE),
     ("a/quiz.xml" :> ServerFile(<<97>>, NoHeader, TRUE))
        @@ ("a/intro.xml" :> ServerFile(<<97, 98>>, "t2", TRUE))}

\* a scanner with a handler registered on which performScan("a/") has been
\* called; an earlier probe may have cached that quiz.xml is missing
InitScan ==
    /\ cache \in {[k \in {} |-> Null],
                  CacheKey("a/quiz.xml") :> [exists |-> FALSE, timestamp |-> 0]}
    /\ contentCache = [k \in {} |-> Null]
    /\ scanInterval = Null
    /\ lastScanResults = <<>>
    /\ onChange = "h1"
    /\ now = 0
    /\ timers = {}
    /\ cycles = <<>>
    /\ probes = <<>>
    /\ fetches = 0
    /\ remote \in Servers
    /\ scan = Started("a/", <<>>)
    /\ refreshes = <<>>
    /\ ret = NoCall

NextScan ==
    \/ \E outcome \in Outcomes, body \in IndexBodies : TryIndexFile(outcome, body)
    \/ \E listing \in Listings : TryDirectoryListing(listing)
    \/ \E down \in SUBSET {"a/quiz.xml"} : TryPatternScanning(down)
    \/ \E manifest \in Manifests : CheckChaptersJson(manifest)
    \/ \E outcome \in Outcomes : GetFileInfo(outcome)
    \/ ScanDirectoryReturns(FALSE)

(***************************************************************************)
(* SpecScan: one scan cycle, from the call of performScan to its return,   *)
(* under every answer of the transport to each of its fetches.             *)
(***************************************************************************)
SpecScan == InitScan /\ [][NextScan]_vars

(***************************************************************************)
(* refreshFile and getCachedContent, lines 394-409.                        *)
(***************************************************************************)
MaxRefreshes == 1     \* refreshFile calls suspended at the same time

\* the names refreshFile and getCachedContent are called with
RefreshNames == {"quiz", "intro"}

\* Map.prototype.delete
MapDelete(m, key) == [k \in DOMAIN m \ {key} |-> m[k]]

\* lines 394-402 and 24-25: the call, up to its suspension at the fetch
RefreshFile(fileName, basePath) ==
    /\ Len(refreshes) < MaxRefreshes
    /\ LET fileUrl == FileUrl(basePath, fileName)
       IN  /\ cache' = MapDelete(cache, CacheKey(fileUrl))
           /\ contentCache' = MapDelete(contentCache, fileUrl)
           /\ refreshes' = Append(refreshes, [url |-> fileUrl])
    /\ UNCHANGED <<now, probes, fetches, remote, scan, ret, lastScanResults, onChange>>
    /\ UNCHANGED schedVars

\* lines 25-44 and 402: the suspended call resumes with the transport's outcome
RefreshResponse(i, outcome) ==
    /\ i \in DOMAIN refreshes
    /\ ret' = [op |-> "refreshFile",
               url |-> refreshes[i].url,
               transport |-> outcome,
               info |-> getFileInfo(Response(refreshes[i].url, outcome))]
    /\ refreshes' = RemoveAt(refreshes, i)
    /\ UNCHANGED <<remote, scan, lastScanResults, onChange>>
    /\ UNCHANGED cacheVars
    /\ UNCHANGED schedVars

\* lines 406-409; value is what Map.prototype.get gives, undefined for a
\* key the map does not hold
GetCachedContent(fileName, basePath) ==
    /\ LET fileUrl == FileUrl(basePath, fileName)
       IN  ret' = [op |-> "getCachedContent",
                   url |-> fileUrl,
                   value |-> IF fileUrl \in DOMAIN contentCache
                             THEN [defined |-> TRUE, content |-> contentCache[fileUrl]]
                             ELSE [defined |-> FALSE]]
    /\ UNCHANGED <<remote, scan, refreshes, lastScanResults, onChange>>
    /\ UNCHANGED cacheVars
    /\ UNCHANGED schedVars

\* a constructed scanner whose testFileExists has probed quiz.xml, and a server
InitRefresh ==
    /\ cache \in {[k \in {} |-> Null],
                  CacheKey("a/quiz.xml") :> [exists |-> FALSE, timestamp |-> 0],
                  CacheKey("a/quiz.xml") :> [exists |-> TRUE, timestamp |-> 0]}
    /\ contentCache = [k \in {} |-> Null]
    /\ scanInterval = Null
    /\ lastScanResults = <<>>
    /\ onChange = Method
    /\ now = 0
    /\ timers = {}
    /\ cycles = <<>>
    /\ probes = <<>>
    /\ fetches = 0
    /\ remote \in Servers
    /\ scan = Idle
    /\ refreshes = <<>>
    /\ ret = NoCall

NextRefresh ==
    \/ \E fileName \in RefreshNames : RefreshFile(fileName, "a/")
    \/ \E i \in 1..MaxRefreshes, outcome \in Outcomes : RefreshResponse(i, outcome)
    \/ \E fileName \in RefreshNames : GetCachedContent(fileName, "a/")
    \/ \E d \in Delays : Advance(d)
    \/ \E url \in RemoteUrls, file \in ServerFiles : RemoteWrite(url, file)
    \/ \E url \in RemoteUrls : RemoteDelete(url)

(***************************************************************************)
(* SpecRefresh: refreshFile and getCachedContent against a server whose    *)
(* files change, with a clock.                                             *)
(***************************************************************************)
SpecRefresh == InitRefresh /\ [][NextRefresh]_vars

\* line 267: the default of interval
DefaultInterval == 30000

\* a constructed scanner with a handler registered, and a server holding quiz.xml
InitRescan ==
    /\ cache = [k \in {} |-> Null]
    /\ contentCache = [k \in {} |-> Null]
    /\ scanInterval = Null
    /\ lastScanResults = <<>>
    /\ onChange = "h1"
    /\ now = 0
    /\ timers = {}
    /\ cycles = <<>>
    /\ probes = <<>>
    /\ fetches = 0
    /\ remote \in {"a/quiz.xml" :> file : file \in ServerFiles}
    /\ scan = Idle
    /\ refreshes = <<>>
    /\ ret = NoCall

\* the server has no index file, no listing and no chapters.json, so that
\* files are found by tryPatternScanning alone
NextRescan ==
    \/ ScanDirectory("a/")
    \/ TryIndexFile("notfound", <<>>)
    \/ \E listing \in {l \in Listings : l.outcome = "notfound"} : TryDirectoryListing(listing)
    \/ TryPatternScanning({})
    \/ \E manifest \in {m \in Manifests : m.outcome = "notfound"} : CheckChaptersJson(manifest)
    \/ \E outcome \in {"ok", "error"} : GetFileInfo(outcome)
    \/ ScanDirectoryReturns(FALSE)
    \/ Advance(DefaultInterval)
    \/ \E file \in ServerFiles : RemoteWrite("a/quiz.xml", file)
    \/ RemoteDelete("a/quiz.xml")

(***************************************************************************)
(* SpecRescan: scan cycles of one base path, one after another, an         *)
(* interval apart or less, against a server whose file changes.            *)
(***************************************************************************)
SpecRescan == InitRescan /\ [][NextRescan]_vars


(***************************************************************************)
(* Properties of detectChanges.                                            *)
(***************************************************************************)
NameSet(files) == {files[i].name : i \in DOMAIN files}

RecordOf(files, n) == CHOOSE r \in Range(files) : r.name = n

Detected == ret.op = "detectChanges"

Ch1(checksum, lastModified, size) == FileRecord("a/", "ch1", checksum, lastModified, size)

\* C1: in the report of detectChanges the names of added, removed, modified
\* and unchanged are pairwise disjoint, no name is listed twice, and together
\* they are exactly the names of the previous and of the current snapshot.
C1_Partition ==
    Detected =>
        LET r == ret.report
            A == NameSet(r.added)
            R == NameSet(r.removed)
            M == NameSet(r.modified)
            U == NameSet(r.unchanged)
        IN  /\ A \cap R = {} /\ A \cap M = {} /\ A \cap U = {}
            /\ R \cap M = {} /\ R \cap U = {} /\ M \cap U = {}
            /\ A \cup R \cup M \cup U = NameSet(ret.previous) \cup NameSet(ret.current)
            /\ Len(r.added) = Cardinality(A)
            /\ Len(r.removed) = Cardinality(R)
            /\ Len(r.modified) = Cardinality(M)
            /\ Len(r.unchanged) = Cardinality(U)

\* a report that lists a modified file next to an added or a removed one
C1_Witness ==
    /\ Detected
    /\ Len(ret.report.modified) = 1
    /\ Len(ret.report.added) + Len(ret.report.removed) = 1

\* C2: a name only in the current snapshot is in added, a name only in the
\* previous one is in removed, a name in both is in modified exactly when
\* checksum, lastModified or size differs and in unchanged otherwise; the
\* flags of a modified entry are the inequalities of checksum, size and
\* lastModified, so one of them is true.
C2_Classification ==
    Detected =>
        LET r == ret.report
            P == NameSet(ret.previous)
            C == NameSet(ret.current)
        IN  /\ \A n \in C \ P : RecordOf(ret.current, n) \in Range(r.added)
            /\ \A n \in P \ C : RecordOf(ret.previous, n) \in Range(r.removed)
            /\ \A n \in P \cap C :
                  LET p == RecordOf(ret.previous, n)
                      c == RecordOf(ret.current, n)
                      same == /\ c.checksum = p.checksum
                              /\ c.lastModified = p.lastModified
                              /\ c.size = p.size
                  IN  /\ ~same <=> n \in NameSet(r.modified)
                      /\ same <=> c \in Range(r.unchanged)
            /\ \A i \in DOMAIN r.modified :
                  LET m == r.modified[i]
                  IN  /\ m.previous = RecordOf(ret.previous, m.name)
                      /\ m.current = RecordOf(ret.current, m.name)
                      /\ m.changes.contentChanged <=> m.current.checksum # m.previous.checksum
                      /\ m.changes.sizeChanged <=> m.current.size # m.previous.size
                      /\ m.changes.timeChanged <=> m.current.lastModified # m.previous.lastModified
                      /\ \/ m.changes.contentChanged
                         \/ m.changes.sizeChanged
                         \/ m.changes.timeChanged

\* ch1 with another checksum and the same size and time: one modified entry
\* whose only flag is contentChanged
C2_Witness ==
    /\ Detected
    /\ ret.previous = <<Ch1("x1", "t1", 10)>>
    /\ ret.current = <<Ch1("x2", "t1", 10)>>
    /\ Len(ret.report.modified) = 1
    /\ ret.report.modified[1].name = "ch1"
    /\ ret.report.modified[1].changes =
         [contentChanged |-> TRUE, sizeChanged |-> FALSE, timeChanged |-> FALSE]
    /\ ret.report.unchanged = <<>>

\* C3: hasChanges is true exactly when added, removed or modified is not
\* empty; with an empty previous snapshot and a non-empty current one every
\* current file is in added and hasChanges is true.
C3_HasChanges ==
    Detected =>
        LET r == ret.report
        IN  /\ r.hasChanges <=> (r.added # <<>> \/ r.removed # <<>> \/ r.modified # <<>>)
            /\ (ret.previous = <<>> /\ ret.current # <<>>) =>
                  /\ Range(r.added) = Range(ret.current)
                  /\ r.hasChanges

\* the previous snapshot is empty and ch1 is scanned: ch1 is added
C3_Witness ==
    /\ Detected
    /\ ret.previous = <<>>
    /\ ret.current = <<Ch1("x1", "t1", 10)>>
    /\ ret.report.added = <<Ch1("x1", "t1", 10)>>
    /\ ret.report.removed = <<>>
    /\ ret.report.modified = <<>>
    /\ ret.report.hasChanges

\* C5: a call of detectChanges reads the retained snapshot and its argument and
\* writes nothing: the retained snapshot, the existence cache, the handler and
\* the count of transport calls are as before, and a second call with the same
\* argument returns the report of the first.
C5_Pure ==
    [][ret'.op = "detectChanges" =>
         /\ lastScanResults' = lastScanResults
         /\ cache' = cache
         /\ onChange' = onChange
         /\ fetches' = fetches
         /\ probes' = probes
         /\ (ret.op = "detectChanges" /\ ret'.current = ret.current)
              => ret'.report = ret.report]_vars

\* a call that found changes, made with a handler registered and a cache entry
C5_Witness ==
    /\ Detected
    /\ ret.report.hasChanges
    /\ ret.report.unchanged # <<>>
    /\ onChange \in Handlers
    /\ DOMAIN cache # {}
    /\ fetches = 0

(***************************************************************************)
(* Properties of testFileExists.                                           *)
(***************************************************************************)
\* the cache holds an entry for the url that is younger than 30 s
YoungEntry(url) ==
    /\ CacheKey(url) \in DOMAIN cache
    /\ now - cache[CacheKey(url)].timestamp < 30000

\* the call that returned last was a probe of the url that went to the transport
LastProbed(url, outcomes) ==
    /\ ret.op = "testFileExists"
    /\ ret.url = url
    /\ ret.transport \in outcomes

\* a step in which a call testFileExists(url) returns
ProbeReturns(url) ==
    \/ TestFileExists(url) /\ fetches' = fetches
    \/ \E i \in DOMAIN probes, outcome \in Outcomes :
          probes[i].url = url /\ ProbeResponse(i, outcome)

\* C6 as amended: a call of testFileExists issues a transport call exactly when
\* the cache holds no entry for the url younger than 30 s, and otherwise
\* returns the cached boolean; a probe made less than 30 s after a probe of
\* the same url was answered by the transport (found or not found) issues no
\* transport call and returns the same boolean.
C6_ProbeIffStale ==
    [][\A url \in ProbeUrls :
         TestFileExists(url) =>
           /\ YoungEntry(url) => /\ fetches' = fetches
                                 /\ ret'.op = "testFileExists"
                                 /\ ret'.url = url
                                 /\ ret'.transport = "none"
                                 /\ ret'.value = cache[CacheKey(url)].exists
           /\ ~YoungEntry(url) => /\ fetches' = fetches + 1
                                  /\ ret' = ret
           /\ (LastProbed(url, {"ok", "notfound"}) /\ now - ret.time < 30000)
                => /\ fetches' = fetches
                   /\ ret'.value = ret.value]_vars

\* a probe answered from the cache 20 s after the only transport call
C6_Witness ==
    /\ ret.op = "testFileExists"
    /\ ret.transport = "none"
    /\ fetches = 1
    /\ probes = <<>>
    /\ CacheKey(ret.url) \in DOMAIN cache
    /\ ret.time - cache[CacheKey(ret.url)].timestamp = 20000

\* C6 as stated: whatever the outcome of a probe that went to the transport
\* (found, not found or transport failure), a probe of the same url less
\* than 30 s later issues no transport call.
C6_Original ==
    [][\A url \in ProbeUrls :
         (TestFileExists(url) /\ LastProbed(url, Outcomes) /\ now - ret.time < 30000)
           => fetches' = fetches]_vars

\* C7 as amended: a call of testFileExists that the transport answers leaves
\* the entry [exists = the returned boolean, timestamp = the time of the
\* answer] and touches no other entry; a call answered from the cache and a
\* call whose transport fails (which returns false) leave the cache as it was.
C7_CacheWrite ==
    [][\A url \in ProbeUrls :
         /\ (TestFileExists(url) /\ fetches' = fetches) => cache' = cache
         /\ \A i \in DOMAIN probes, outcome \in Outcomes :
              (probes[i].url = url /\ ProbeResponse(i, outcome)) =>
                 /\ ret'.value = (outcome = "ok")
                 /\ IF outcome = "error"
                    THEN cache' = cache
                    ELSE /\ DOMAIN cache' = DOMAIN cache \cup {CacheKey(url)}
                         /\ cache'[CacheKey(url)] =
                              [exists |-> ret'.value, timestamp |-> now]
                         /\ \A k \in DOMAIN cache \ {CacheKey(url)} :
                              cache'[k] = cache[k]]_vars

\* a probe was answered from a cache entry written 20 s earlier, and the
\* entry still carries the time of the transport's answer
C7_Witness ==
    /\ ret.op = "testFileExists"
    /\ ret.transport = "none"
    /\ ret.time = now
    /\ CacheKey(ret.url) \in DOMAIN cache
    /\ cache[CacheKey(ret.url)] = [exists |-> ret.value, timestamp |-> now - 20000]

\* C7 as stated: every call that returns b leaves the entry
\* [exists = b, timestamp = the time of the call]
C7_Original ==
    [][\A url \in ProbeUrls :
         ProbeReturns(url) =>
           /\ CacheKey(url) \in DOMAIN cache'
           /\ cache'[CacheKey(url)] = [exists |-> ret'.value, timestamp |-> now']]_vars

(***************************************************************************)
(* Properties of the scan cycle, the hook and the schedule.                *)
(***************************************************************************)
\* C4 as amended: when a scan cycle (performScan) has diffed its snapshot, the
\* retained snapshot is that snapshot in full, whether or not the report has
\* changes and whether or not the hook throws, and the diff was made against
\* the snapshot retained before; a call of detectChanges on its own, like
\* every other call, leaves the retained snapshot as it was.
C4_ScanReplaces ==
    [][/\ ret'.op = "performScan" =>
            /\ lastScanResults' = ret'.current
            /\ ret'.previous = lastScanResults
            /\ ret'.report.allFiles = NamesOf(ret'.current)
       /\ ret'.op # "performScan" => lastScanResults' = lastScanResults]_vars

\* a cycle without changes, and one whose hook threw, have both replaced the
\* retained snapshot
C4_Witness ==
    /\ ret.op = "performScan"
    /\ lastScanResults = ret.current
    /\ lastScanResults # <<>>
    /\ ret.previous # ret.current
    /\ \/ ~ret.report.hasChanges
       \/ ret.caught

\* C4 as stated: after detectChanges has computed its report the retained
\* snapshot is the snapshot it was given
C4_Original ==
    [][ret'.op \in {"detectChanges", "performScan"} =>
         lastScanResults' = ret'.current]_vars

\* C8: with a handler registered, a scan cycle invokes that handler once, with
\* the report of the cycle's own diff, when the report has changes, and
\* invokes nothing when it has none; the handler stays registered.
C8_HandlerOncePerChange ==
    [][(ret'.op = "performScan" /\ onChange \in Handlers) =>
         /\ ret'.report.hasChanges =>
               ret'.invoked = <<[handler |-> onChange, arg |-> ret'.report]>>
         /\ ~ret'.report.hasChanges => ret'.invoked = <<>>
         /\ ret'.previous = lastScanResults
         /\ ret'.report.allFiles = NamesOf(ret'.current)
         /\ lastScanResults' = ret'.current
         /\ onChange' = onChange]_vars

\* a cycle under base path a/ found ch1 modified and invoked h1 with the report
C8_Witness ==
    /\ ret.op = "performScan"
    /\ onChange = "h1"
    /\ ret.report.hasChanges
    /\ Len(ret.report.modified) = 1
    /\ ret.invoked = <<[handler |-> "h1", arg |-> ret.report]>>
    /\ ~ret.caught

\* C9: a registration made while a handler is registered invokes no handler
\* and puts the new handler in the slot.
C9_ReplaceOnRegister ==
    [][(ret'.op = "onChange" /\ onChange \in Handlers) =>
         /\ ret'.invoked = <<>>
         /\ onChange' = ret'.callback]_vars

\* C10: at most one interval timer is live, and it is the one scanInterval
\* names; startScanning(B) starts one cycle under B at once and leaves the
\* timer of B as the only live timer; a firing timer starts one cycle under
\* the base path of the live timer; only startScanning and stopScanning
\* change the timers.
C10_TimerInv ==
    /\ Cardinality(timers) <= 1
    /\ scanInterval = Null => timers = {}
    /\ scanInterval # Null => TimerIds = {scanInterval}

C10_OneSchedule ==
    /\ []C10_TimerInv
    /\ [][/\ ret'.op = "startScanning" =>
               /\ cycles' = Append(cycles, [basePath |-> ret'.basePath])
               /\ \E id \in 1..MaxTimers :
                    /\ timers' = {[id |-> id, basePath |-> ret'.basePath]}
                    /\ scanInterval' = id
          /\ ret'.op = "timer" =>
               /\ \A t \in timers : t.basePath = ret'.basePath
               /\ timers # {}
               /\ cycles' = Append(cycles, [basePath |-> ret'.basePath])
          /\ ret'.op = "stopScanning" => timers' = {} /\ scanInterval' = Null
          /\ ret'.op \notin {"startScanning", "stopScanning"} =>
               /\ timers' = timers
               /\ scanInterval' = scanInterval]_vars

\* a cycle of the first schedule (base path a/) is still suspended when the
\* timer of the second schedule fires and starts a cycle under b/
C10_Witness ==
    /\ ret.op = "timer"
    /\ ret.basePath = "b/"
    /\ cycles = <<[basePath |-> "a/"], [basePath |-> "b/"]>>
    /\ \A t \in timers : t.basePath = "b/"
    /\ scanInterval # Null

\* C11: stopScanning leaves no live timer and a null scanInterval, so no timer
\* fires until startScanning is called again; with no active schedule it
\* changes nothing; it leaves the suspended cycles as they are, and a cycle
\* that completes while no schedule is active still replaces the retained
\* snapshot and still calls a registered handler when it finds changes.
C11_StopOnlyFuture ==
    [][/\ ret'.op = "stopScanning" =>
            /\ timers' = {}
            /\ scanInterval' = Null
            /\ cycles' = cycles
            /\ lastScanResults' = lastScanResults
            /\ onChange' = onChange
            /\ scanInterval = Null => timers' = timers
       /\ ret'.op = "timer" => scanInterval # Null
       /\ (scanInterval = Null /\ ret'.op # "startScanning") => scanInterval' = Null
       /\ ret'.op # "performScan" => Len(cycles') >= Len(cycles)
       /\ (ret'.op = "performScan" /\ scanInterval = Null) =>
            /\ Len(cycles') = Len(cycles) - 1
            /\ lastScanResults' = ret'.current
            /\ (onChange \in Handlers /\ ret'.report.hasChanges) =>
                 ret'.invoked = <<[handler |-> onChange, arg |-> ret'.report]>>]_vars

\* no schedule is active and a cycle that was suspended when stopScanning was
\* called has completed, replaced the snapshot and invoked the handler
C11_Witness ==
    /\ scanInterval = Null
    /\ timers = {}
    /\ ret.op = "performScan"
    /\ ret.report.hasChanges
    /\ lastScanResults = ret.current
    /\ ret.invoked = <<[handler |-> "h1", arg |-> ret.report]>>

\* C12 as amended: a throw inside a scan cycle is caught in that cycle: the
\* cycle returns hasChanges = false, the timers and scanInterval are as
\* before, and no handler is invoked after the throw; when it is the handler
\* that threw, that handler has been invoked once with the cycle's report, and
\* when this.onChange is not callable no handler has been invoked.
C12_FailureCaught ==
    [][(ret'.op = "performScan" /\ ret'.caught) =>
         /\ ret'.result = [hasChanges |-> FALSE]
         /\ ret'.report.hasChanges
         /\ timers' = timers
         /\ scanInterval' = scanInterval
         /\ onChange' = onChange
         /\ IF onChange \in Handlers
            THEN ret'.invoked = <<[handler |-> onChange, arg |-> ret'.report]>>
            ELSE ret'.invoked = <<>>]_vars

\* a cycle whose handler threw, under an active schedule
C12_Witness ==
    /\ ret.op = "performScan"
    /\ ret.caught
    /\ ret.result = [hasChanges |-> FALSE]
    /\ ret.invoked = <<[handler |-> "h1", arg |-> ret.report]>>
    /\ scanInterval # Null
    /\ timers # {}

\* C12 as stated: in a cycle with a caught failure the handler is not invoked
\* with a report, the result is hasChanges = false and the schedule stays
C12_Original ==
    [][(ret'.op = "performScan" /\ ret'.caught) =>
         /\ ret'.result = [hasChanges |-> FALSE]
         /\ ret'.invoked = <<>>
         /\ timers' = timers
         /\ scanInterval' = scanInterval]_vars

(***************************************************************************)
(* Properties of generateChecksum.                                         *)
(***************************************************************************)
\* 31 * h + code mod 2^32, on the halves of h
Times31Plus(h, code) ==
    LET l == h.lo * 31 + code
    IN  [hi |-> (h.hi * 31 + l \div Half) % Half, lo |-> l % Half]

\* the digits of n >= 0 in base 36, most significant first
RECURSIVE DigitsOf(_)
DigitsOf(n) == IF n < 36 THEN <<n>> ELSE Append(DigitsOf(n \div 36), n % 36)

RECURSIVE Render36(_)
Render36(digits) ==
    IF digits = <<>> THEN ""
    ELSE Digits36[digits[1] + 1] \o Render36(Tail(digits))

\* C17: the accumulator starts at 0 and after each character is
\* 31 * hash + code wrapped to int32, so it is always an int32; the value is
\* the base-36 rendering of the last accumulator (a minus sign and the
\* magnitude for a negative one), and is a function of the string alone.
C17_Checksum ==
    ret.op = "generateChecksum" =>
        LET n == Len(ret.content)
            acc(i) == IF i = 0 THEN [hi |-> 0, lo |-> 0] ELSE ret.trace[i]
            last == Signed(acc(n))
        IN  /\ Len(ret.trace) = n
            /\ \A i \in 1..n :
                 /\ ret.trace[i] = Times31Plus(acc(i - 1), ret.content[i])
                 /\ ret.trace[i].hi \in 0..(Half - 1)
                 /\ ret.trace[i].lo \in 0..(Half - 1)
                 /\ Signed(ret.trace[i]) >= -2147483647 - 1
                 /\ Signed(ret.trace[i]) <= 2147483647
            /\ ret.value = generateChecksum(ret.content)
            /\ IF last >= 0
               THEN ret.value = Render36(DigitsOf(last))
               ELSE IF last = -2147483647 - 1
               THEN ret.value = "-zik0zk"
               ELSE ret.value = "-" \o Render36(DigitsOf(0 - last))

\* a string whose accumulator wraps to a negative int32
C17_Witness ==
    /\ ret.op = "generateChecksum"
    /\ Len(ret.content) = MaxContentLen
    /\ \E i \in 1..Len(ret.trace) : Signed(ret.trace[i]) < 0
    /\ Signed(ret.trace[Len(ret.trace)]) < 0
    /\ \E i \in 1..Len(ret.trace) : Signed(ret.trace[i]) > 0

(***************************************************************************)
(* Properties of cleanupCache.                                             *)
(***************************************************************************)
\* C16: cleanupCache(maxAge) deletes exactly the entries older than maxAge
\* and keeps the others as they are; the default maxAge is one hour; the
\* retained snapshot, the schedule and this.onChange are unchanged; and a
\* testFileExists after a cleanup still fetches when the entry of its url was
\* kept and is 30s old or older.
C16_Cleanup ==
    [][/\ DefaultMaxAge = 60 * 60 * 1000
       /\ \A maxAge \in MaxAges : CleanupCache(maxAge) =>
            /\ DOMAIN cache' = {k \in DOMAIN cache : now - cache[k].timestamp <= maxAge}
            /\ \A k \in DOMAIN cache' : cache'[k] = cache[k]
            /\ lastScanResults' = lastScanResults
            /\ onChange' = onChange
            /\ <<scanInterval, timers, cycles>>' = <<scanInterval, timers, cycles>>
       /\ \A url \in ProbeUrls :
            (/\ ret.op = "cleanupCache"
             /\ TestFileExists(url)
             /\ CacheKey(url) \in DOMAIN cache
             /\ now - cache[CacheKey(url)].timestamp >= CacheTTL) =>
                /\ fetches' = fetches + 1
                /\ probes' = Append(probes, [url |-> url])]_vars

\* a cleanup that deleted one entry and kept another that is older than 30s
C16_Witness ==
    /\ ret.op = "cleanupCache"
    /\ ret.time = now
    /\ \E k \in DOMAIN ret.before : k \notin DOMAIN cache
    /\ \E k \in DOMAIN cache :
         /\ now - cache[k].timestamp > CacheTTL
         /\ now - cache[k].timestamp = ret.maxAge

(***************************************************************************)
(* Properties of scanDirectory and discoverFiles.                          *)
(***************************************************************************)
\* the positions of the candidates whose getFileInfo reported exists
Existing(infos) == {i \in DOMAIN infos : infos[i].exists}

\* C13: scanDirectory returns; every discovered candidate was fetched once,
\* at basePath + name + ".xml"; the snapshot holds one record, made of what
\* getFileInfo returned, for each candidate that exists and none for another
\* name, in the order of discovery, so its names are pairwise distinct; a
\* candidate whose fetch failed is dropped alone; and no candidate gives the
\* empty snapshot.
C13_Snapshot ==
    ret.op = "performScan" =>
        /\ Len(ret.infos) = Len(ret.found)
        /\ DistinctNames(ret.current)
        /\ NameSet(ret.current) = {ret.found[i] : i \in Existing(ret.infos)}
        /\ Len(ret.current) = Cardinality(Existing(ret.infos))
        /\ \A i \in Existing(ret.infos) :
             \E j \in DOMAIN ret.current :
                /\ ret.current[j] = [name |-> ret.found[i],
                                     url |-> ret.basePath \o ret.found[i] \o ".xml",
                                     checksum |-> ret.infos[i].checksum,
                                     lastModified |-> ret.infos[i].lastModified,
                                     size |-> ret.infos[i].size]
                /\ j = Cardinality({h \in Existing(ret.infos) : h <= i})
        /\ ret.found = <<>> => ret.current = <<>>

\* a snapshot without the first candidate, whose fetch was rejected although
\* the server holds the file, and with a later candidate
C13_Witness ==
    /\ ret.op = "performScan"
    /\ Len(ret.found) >= 2
    /\ ~ret.infos[1].exists
    /\ (ret.basePath \o ret.found[1] \o ".xml") \in DOMAIN remote
    /\ ret.infos[2].exists
    /\ NameSet(ret.current) = {ret.found[2]}

\* the names of found are pairwise distinct
NoDuplicates(found) == Cardinality(Range(found)) = Len(found)

\* what discoverFiles returns holds the names of the four methods and no other
UnionOfFour(s) ==
    /\ Range(s.found) = Range(s.index) \cup Range(s.listing)
                          \cup Range(s.pattern) \cup Range(s.manifest)
    /\ NoDuplicates(s.found)

\* each method is followed by the next, whatever happened in it
MethodsInTurn ==
    /\ scan.pc = "index" => scan'.pc \in {"index", "listing"}
    /\ scan.pc = "listing" => scan'.pc = "pattern"
    /\ scan.pc = "pattern" => scan'.pc = "manifest"
    /\ scan.pc = "manifest" => scan'.pc = "files"

C15_ReadBack ==
    [][/\ \A fileName \in RefreshNames :
            RefreshFile(fileName, "a/") =>
                /\ refreshes' = Append(refreshes, [url |-> FileUrl("a/", fileName)])
                /\ CacheKey(FileUrl("a/", fileName)) \notin DOMAIN cache'
       /\ \A fileName \in RefreshNames :
            (/\ ret.op = "refreshFile"
             /\ ret.info.exists
             /\ ret.url = FileUrl("a/", fileName)
             /\ refreshes = <<>>
             /\ GetCachedContent(fileName, "a/")) =>
                ret'.value = [defined |-> TRUE, content |-> ret.info.content]]_vars

(***************************************************************************)
(* Properties of consecutive scan cycles.                                  *)
(***************************************************************************)
\* the names of the files both cycles fetched and the server held unchanged
Unaltered(served, previousServed) ==
    {name \in DOMAIN served \cap DOMAIN previousServed :
        served[name] = previousServed[name]}

\* C18: a cycle lists under unchanged, and not under modified, every file
\* whose content and last-modified header on the server are what they were
\* when the cycle before fetched it, and it reports hasChanges = false when
\* that is so for every file of both cycles.
C18_Unchanged ==
    [][ScanDirectoryReturns(FALSE) =>
         LET same == Unaltered(ret'.served, ret'.previousServed)
         IN  /\ \A name \in same :
                  /\ name \in NameSet(ret'.report.unchanged)
                  /\ \A j \in DOMAIN ret'.report.modified :
                       ret'.report.modified[j].name # name
             /\ (/\ same = NameSet(ret'.current)
                 /\ same = NameSet(ret'.previous)) => ~ret'.report.hasChanges]_vars

(***************************************************************************)
(* Properties of a handler registered after cycles without one.            *)
(***************************************************************************)
\* C19: a cycle that finds changes while no handler is registered invokes
\* nothing and leaves this.onChange as it is; onChange(callback), called
\* while no handler is registered, does not raise and makes callback what
\* this.onChange holds; and a cycle that finds changes while a handler is
\* registered invokes that handler with its report.
C19_LateRegistration ==
    [][/\ (ret'.op = "performScan" /\ onChange \notin Handlers) =>
            /\ ret'.invoked = <<>>
            /\ onChange' = onChange
       /\ (ret'.op = "onChange" /\ onChange \notin Handlers) =>
            /\ ~ret'.raised
            /\ onChange' = ret'.callback
       /\ (ret'.op = "performScan" /\ onChange \in Handlers /\ ret'.report.hasChanges) =>
            ret'.invoked = <<[handler |-> onChange, arg |-> ret'.report]>>]_vars

(***************************************************************************)
(* Properties of overlapping scan cycles.                                  *)
(***************************************************************************)
\* C20: with cycles overlapping, the retained snapshot changes only in the
\* step in which a cycle completes; that one step computes the cycle's report
\* as the diff of its snapshot against the retained snapshot, which is the
\* empty one or the snapshot of the cycle that completed last before it, and
\* replaces the retained snapshot by the whole of its own; the cycles still in
\* flight take no part in the step.
C20_AtomicReplace ==
    [][/\ lastScanResults' # lastScanResults => ret'.op = "performScan"
       /\ ret'.op = "performScan" =>
            /\ ret'.previous = lastScanResults
            /\ ret'.report = detectChanges(ret'.current, lastScanResults)
            /\ lastScanResults' = ret'.current
            /\ \E i \in DOMAIN cycles : cycles' = RemoveAt(cycles, i)
       /\ (ret.op = "performScan" /\ ret'.op # "performScan") =>
            lastScanResults' = ret.current
       /\ (ret.op = "performScan" /\ ret'.op = "performScan") =>
            ret'.previous = ret.current]_vars

\* a cycle completed while another was in flight, after an earlier cycle had
\* completed with another snapshot
C20_Witness ==
    /\ ret.op = "performScan"
    /\ Len(cycles) >= 1
    /\ ret.previous # <<>>
    /\ ret.current # ret.previous
    /\ lastScanResults = ret.current
    /\ ret.report.hasChanges


====
